---- MODULE Spec2Model ----
(***************************************************************************)
(* A model of the ClickHouse metrics query helpers                         *)
(* (src/examples/metrics-usage.ts), the MetricsService that drives them    *)
(* (src/apps/webapp/app/presenters/v3/MetricPresenter.server.ts) and the   *)
(* metrics route loader                                                    *)
(* (src/apps/webapp/app/routes/resources.environments.$environmentId.      *)
(* metrics.tsx).                                                           *)
(*                                                                         *)
(* A granularity string is a sequence of one-character strings, so that    *)
(* the regular expression /^(\d+)([smhd])$/ is decided character by        *)
(* character.  An optional value is a sequence of length 0 or 1.  A query  *)
(* builder is the log of the where/groupBy/orderBy calls made on it.       *)
(***************************************************************************)
EXTENDS Integers, Sequences, FiniteSets, TLC

VARIABLES call, svc, ldr

vars == <<call, svc, ldr>>

----------------------------------------------------------------------------
\* Optional values and JavaScript truthiness

None == <<>>

Some(v) == <<v>>

IsGiven(o) == o # None

\* A bound parameter value: z.union([z.string(), z.number()]) or a string.
StrV(s) == [kind |-> "string", num |-> 0, str |-> s]

NumV(n) == [kind |-> "number", num |-> n, str |-> ""]

\* if (v): 0 and "" are falsy, every other number or string is truthy.
Truthy(v) == IF v.kind = "number" THEN v.num # 0 ELSE v.str # ""

\* if (o) for an optional string: undefined and "" are falsy.
TruthyStr(o) == o # None /\ o[1] # ""

\* if (o) for an optional string | number.
TruthyVal(o) == o # None /\ Truthy(o[1])

----------------------------------------------------------------------------
\* Granularity strings

MaxGranLen == 3

DigitChars == {"0", "1", "2", "3", "4", "5", "6", "7", "8", "9"}

UnitChars == {"s", "m", "h", "d"}

\* The characters granularity strings are drawn from: two digits, the four
\* unit letters, and three characters outside the grammar.
Alphabet == {"1", "5", "s", "m", "h", "d", "w", ".", " "}

GranularityStrings == UNION {[1..n -> Alphabet] : n \in 0..MaxGranLen}

RECURSIVE Join(_)
Join(g) == IF g = <<>> THEN "" ELSE g[1] \o Join(Tail(g))

\* granularity.match(/^(\d+)([smhd])$/) is not null
Matches(g) ==
    /\ Len(g) >= 2
    /\ \A i \in 1..(Len(g) - 1) : g[i] \in DigitChars
    /\ g[Len(g)] \in UnitChars

Amount(g) == SubSeq(g, 1, Len(g) - 1)

Unit(g) == g[Len(g)]

UnitName(unit) ==
    CASE unit = "s" -> "SECOND"
      [] unit = "m" -> "MINUTE"
      [] unit = "h" -> "HOUR"
      [] unit = "d" -> "DAY"

\* The one helper that rejects a granularity string; nothing calls it.
granularityToInterval(granularity) ==
    IF ~Matches(granularity)
    THEN [threw |-> TRUE,
          message |-> "Invalid granularity format: " \o Join(granularity)
                      \o ". Expected format like \"1m\", \"5m\", \"1h\", \"1d\"",
          interval |-> ""]
    ELSE [threw |-> FALSE, message |-> "",
          interval |-> Join(Amount(granularity)) \o " "
                       \o UnitName(Unit(granularity))]

MinuteBucket == "toStartOfMinute(toDateTime(created_at))"

HourBucket == "toStartOfHour(toDateTime(created_at))"

DayBucket == "toDate(toDateTime(created_at))"

\* A variant that buckets by the amount as well: 15-minute buckets for "15m".
getTimeBucketFunction_byAmount(granularity) ==
    IF ~Matches(granularity) THEN MinuteBucket
    ELSE IF Unit(granularity) = "m" /\ Amount(granularity) = <<"1", "5">>
    THEN "toStartOfFifteenMinutes(toDateTime(created_at))"
    ELSE IF Unit(granularity) = "s" \/ Unit(granularity) = "m" THEN MinuteBucket
    ELSE IF Unit(granularity) = "h" THEN HourBucket
    ELSE IF Unit(granularity) = "d" THEN DayBucket
    ELSE MinuteBucket

getTimeBucketFunction(granularity) ==
    IF ~Matches(granularity) THEN MinuteBucket
    ELSE IF Unit(granularity) = "s" \/ Unit(granularity) = "m" THEN MinuteBucket
    ELSE IF Unit(granularity) = "h" THEN HourBucket
    ELSE IF Unit(granularity) = "d" THEN DayBucket
    ELSE MinuteBucket

----------------------------------------------------------------------------
\* Aggregation expressions

RollupTypes == {"count", "sum", "avg", "min", "max", "distinct"}

CustomAggregations == {"count", "sum", "avg", "min", "max"}

\* A variant that tests for the wildcard before the switch on the type.
buildAggregationExpression_wildcardFirst(rollupType, column) ==
    IF column = "*" THEN "count()"
    ELSE CASE rollupType = "distinct" -> "uniq(" \o column \o ")"
           [] rollupType \in {"count", "sum", "avg", "min", "max"} ->
                rollupType \o "(" \o column \o ")"
           [] OTHER -> "count()"

buildAggregationExpression(rollupType, column) ==
    CASE rollupType = "count" ->
           IF column = "*" THEN "count()" ELSE "count(" \o column \o ")"
      [] rollupType = "sum" -> "sum(" \o column \o ")"
      [] rollupType = "avg" -> "avg(" \o column \o ")"
      [] rollupType = "min" -> "min(" \o column \o ")"
      [] rollupType = "max" -> "max(" \o column \o ")"
      [] rollupType = "distinct" -> "uniq(" \o column \o ")"
      [] OTHER -> "count()"

----------------------------------------------------------------------------
\* Query builder factories: ch.queryBuilder({name, baseQuery, schema, settings})

TaskRunsTable == "trigger_dev.task_runs_v2"

\* SELECT <timestamp> as timestamp, <value> as value [, <label> as label]
\* FROM <table> FINAL [WHERE <where>]
BaseQuery(timestamp, value, label, where) ==
    [timestamp |-> timestamp, value |-> value, label |-> label,
     table |-> TaskRunsTable, final |-> TRUE, where |-> where]

QueryBuilder(name, baseQuery) == [name |-> name, baseQuery |-> baseQuery]

getDynamicMetricsQueryBuilder(granularity, rollupType, column) ==
    QueryBuilder(
        "getDynamicMetrics_" \o rollupType \o "_" \o column \o "_" \o Join(granularity),
        BaseQuery(getTimeBucketFunction(granularity),
                  buildAggregationExpression(rollupType, column), None, None))

getTaskRunCountMetrics ==
    QueryBuilder("getTaskRunCountMetrics",
        BaseQuery(getTimeBucketFunction(<<"1", "m">>), "count()",
                  Some("task_identifier"), None))

getTaskRunDurationMetrics ==
    QueryBuilder("getTaskRunDurationMetrics",
        BaseQuery(getTimeBucketFunction(<<"1", "m">>), "avg(usage_duration_ms)",
                  Some("task_identifier"), Some("usage_duration_ms > 0")))

getTaskRunCostMetrics ==
    QueryBuilder("getTaskRunCostMetrics",
        BaseQuery(getTimeBucketFunction(<<"1", "m">>), "sum(cost_in_cents)",
                  Some("task_identifier"), Some("cost_in_cents > 0")))

getTaskRunStatusMetrics ==
    QueryBuilder("getTaskRunStatusMetrics",
        BaseQuery(getTimeBucketFunction(<<"1", "m">>), "count()",
                  Some("status"), None))

\* A variant that restricts to positive values for every aggregation, count
\* included.
getCustomMetrics_alwaysPositive(metric, aggregation, column) ==
    QueryBuilder("getCustomMetrics_" \o metric \o "_" \o aggregation,
        BaseQuery(getTimeBucketFunction(<<"1", "m">>),
                  aggregation \o "(" \o column \o ")",
                  Some("task_identifier"), Some(column \o " > 0")))

getCustomMetrics(metric, aggregation, column) ==
    QueryBuilder("getCustomMetrics_" \o metric \o "_" \o aggregation,
        BaseQuery(getTimeBucketFunction(<<"1", "m">>),
                  aggregation \o "(" \o column \o ")",
                  Some("task_identifier"),
                  IF aggregation \in {"avg", "sum", "min", "max"}
                  THEN Some(column \o " > 0") ELSE None))

----------------------------------------------------------------------------
\* createMetricsQuery: the choice of the query builder

Selected(queryBuilder) ==
    [threw |-> FALSE, message |-> "", queryBuilder |-> Some(queryBuilder)]

Thrown(message) ==
    [threw |-> TRUE, message |-> message, queryBuilder |-> None]

\* A variant whose switch falls back to the count metric instead of throwing.
SelectQueryBuilder_defaultsToCount(params, metricType, customMetric) ==
    IF IsGiven(params.rollup)
    THEN Selected(getDynamicMetricsQueryBuilder(params.granularity,
                      params.rollup[1].type, params.rollup[1].column))
    ELSE IF TruthyStr(metricType)
    THEN CASE metricType[1] = "duration" -> Selected(getTaskRunDurationMetrics)
           [] metricType[1] = "cost" -> Selected(getTaskRunCostMetrics)
           [] metricType[1] = "status" -> Selected(getTaskRunStatusMetrics)
           [] metricType[1] = "custom" ->
                IF ~IsGiven(customMetric)
                THEN Thrown("customMetric is required for custom metric type")
                ELSE Selected(getCustomMetrics("custom",
                         customMetric[1].aggregation, customMetric[1].column))
           [] OTHER -> Selected(getTaskRunCountMetrics)
    ELSE Thrown("Either metricType or rollup must be specified")

\* A variant that looks at metricType before the rollup: a named metric
\* wins over the rollup.
SelectQueryBuilder_metricTypeFirst(params, metricType, customMetric) ==
    IF TruthyStr(metricType)
    THEN CASE metricType[1] = "count" -> Selected(getTaskRunCountMetrics)
           [] metricType[1] = "duration" -> Selected(getTaskRunDurationMetrics)
           [] metricType[1] = "cost" -> Selected(getTaskRunCostMetrics)
           [] metricType[1] = "status" -> Selected(getTaskRunStatusMetrics)
           [] metricType[1] = "custom" ->
                IF ~IsGiven(customMetric)
                THEN Thrown("customMetric is required for custom metric type")
                ELSE Selected(getCustomMetrics("custom",
                         customMetric[1].aggregation, customMetric[1].column))
           [] OTHER -> Thrown("Unknown metric type: " \o metricType[1])
    ELSE IF IsGiven(params.rollup)
    THEN Selected(getDynamicMetricsQueryBuilder(params.granularity,
                      params.rollup[1].type, params.rollup[1].column))
    ELSE Thrown("Either metricType or rollup must be specified")

\* A variant whose predefined metrics are bucketed by params.granularity
\* instead of the fixed "1m".
SelectQueryBuilder_bucketByGranularity(params, metricType, customMetric) ==
    LET bucketed(queryBuilder) ==
            Selected([queryBuilder EXCEPT !.baseQuery.timestamp =
                                     getTimeBucketFunction(params.granularity)])
    IN  IF IsGiven(params.rollup)
        THEN Selected(getDynamicMetricsQueryBuilder(params.granularity,
                          params.rollup[1].type, params.rollup[1].column))
        ELSE IF TruthyStr(metricType)
        THEN CASE metricType[1] = "count" -> bucketed(getTaskRunCountMetrics)
               [] metricType[1] = "duration" -> bucketed(getTaskRunDurationMetrics)
               [] metricType[1] = "cost" -> bucketed(getTaskRunCostMetrics)
               [] metricType[1] = "status" -> bucketed(getTaskRunStatusMetrics)
               [] metricType[1] = "custom" ->
                    IF ~IsGiven(customMetric)
                    THEN Thrown("customMetric is required for custom metric type")
                    ELSE bucketed(getCustomMetrics("custom",
                             customMetric[1].aggregation, customMetric[1].column))
               [] OTHER -> Thrown("Unknown metric type: " \o metricType[1])
        ELSE Thrown("Either metricType or rollup must be specified")

SelectQueryBuilder(params, metricType, customMetric) ==
    IF IsGiven(params.rollup)
    THEN Selected(getDynamicMetricsQueryBuilder(params.granularity,
                      params.rollup[1].type, params.rollup[1].column))
    ELSE IF TruthyStr(metricType)
    THEN CASE metricType[1] = "count" -> Selected(getTaskRunCountMetrics)
           [] metricType[1] = "duration" -> Selected(getTaskRunDurationMetrics)
           [] metricType[1] = "cost" -> Selected(getTaskRunCostMetrics)
           [] metricType[1] = "status" -> Selected(getTaskRunStatusMetrics)
           [] metricType[1] = "custom" ->
                IF ~IsGiven(customMetric)
                THEN Thrown("customMetric is required for custom metric type")
                ELSE Selected(getCustomMetrics("custom",
                         customMetric[1].aggregation, customMetric[1].column))
           [] OTHER -> Thrown("Unknown metric type: " \o metricType[1])
    ELSE Thrown("Either metricType or rollup must be specified")

\* A variant that hands out one module-level builder instead of a new one:
\* a builder that already exists is used again, with the calls made on it.
NewBuilder_shared(queryBuilder) ==
    LET live == {p \in DOMAIN call : call[p].builder # <<>>}
    IN  [name |-> queryBuilder.name, baseQuery |-> queryBuilder.baseQuery,
         calls |-> IF live = {} THEN <<>>
                   ELSE call[CHOOSE p \in live : TRUE].builder[1].calls]

\* const builder = queryBuilder(): a builder of its own for every composition
NewBuilder(queryBuilder) ==
    [name |-> queryBuilder.name, baseQuery |-> queryBuilder.baseQuery,
     calls |-> <<>>]

----------------------------------------------------------------------------
\* createMetricsQuery: the calls made on the builder

Where(clause, bound) == [params |-> bound, clause |-> clause, op |-> "where"]

GroupBy(column) == [params |-> <<>>, clause |-> column, op |-> "groupBy"]

OrderBy(clause) == [params |-> <<>>, clause |-> clause, op |-> "orderBy"]

Bind(name, value) == [name |-> name, value |-> value]

\* params.filters?.<field>
FilterOf(params, field) ==
    IF IsGiven(params.filters) THEN params.filters[1][field] ELSE None

OrganizationFilter(params) ==
    <<Where("organization_id = {organizationId:String}",
            <<Bind("organizationId", StrV(params.organizationId))>>)>>

ProjectFilter(params) ==
    <<Where("project_id = {projectId:String}",
            <<Bind("projectId", StrV(params.projectId))>>)>>

EnvironmentFilter(params) ==
    <<Where("environment_id = {environmentId:String}",
            <<Bind("environmentId", StrV(params.environmentId))>>)>>

SoftDeleteFilter(params) == <<Where("_is_deleted = 0", <<>>)>>

StartTimeFilter(params) ==
    <<Where("created_at >= toUnixTimestamp({startTime:DateTime64})",
            <<Bind("startTime", params.startTime)>>)>>

EndTimeFilter(params) ==
    IF TruthyVal(params.endTime)
    THEN <<Where("created_at <= toUnixTimestamp({endTime:DateTime64})",
                 <<Bind("endTime", params.endTime[1])>>)>>
    ELSE <<>>

TaskIdentifierFilter(params) ==
    IF TruthyStr(FilterOf(params, "task_identifier"))
    THEN <<Where("task_identifier = {taskIdentifier:String}",
                 <<Bind("taskIdentifier",
                        StrV(FilterOf(params, "task_identifier")[1]))>>)>>
    ELSE <<>>

StatusFilter(params) ==
    IF TruthyStr(FilterOf(params, "status"))
    THEN <<Where("status = {status:String}",
                 <<Bind("status", StrV(FilterOf(params, "status")[1]))>>)>>
    ELSE <<>>

QueueFilter(params) ==
    IF TruthyStr(FilterOf(params, "queue"))
    THEN <<Where("queue = {queue:String}",
                 <<Bind("queue", StrV(FilterOf(params, "queue")[1]))>>)>>
    ELSE <<>>

\* A variant that adds the default grouping to dynamic queries too.
Grouping_ignoresRollup(params) ==
    IF TruthyStr(params.groupBy) /\ params.groupBy[1] # "task_identifier"
    THEN <<GroupBy(params.groupBy[1])>>
    ELSE IF ~TruthyStr(params.groupBy)
    THEN <<GroupBy("task_identifier")>>
    ELSE <<>>

Grouping(params) ==
    IF TruthyStr(params.groupBy) /\ params.groupBy[1] # "task_identifier"
    THEN <<GroupBy(params.groupBy[1])>>
    ELSE IF ~TruthyStr(params.groupBy) /\ ~IsGiven(params.rollup)
    THEN <<GroupBy("task_identifier")>>
    ELSE <<>>

Ordering(params) == <<OrderBy("timestamp ASC")>>

\* A variant with the queue filter moved below the group-by.
Stages_queueAfterGroupBy ==
    <<"organization", "project", "environment", "deleted", "startTime",
      "endTime", "taskIdentifier", "status", "groupBy", "queue", "orderBy">>

\* The statements of createMetricsQuery after the builder is created, in
\* program order.
Stages ==
    <<"organization", "project", "environment", "deleted", "startTime",
      "endTime", "taskIdentifier", "status", "queue", "groupBy", "orderBy">>

StageIndex(stage) == CHOOSE i \in 1..Len(Stages) : Stages[i] = stage

\* Where control is after the statement `stage`: the next statement, or the
\* return.
After(stage) ==
    IF StageIndex(stage) = Len(Stages) THEN "done"
    ELSE Stages[StageIndex(stage) + 1]

CallsOf(stage, params) ==
    CASE stage = "organization" -> OrganizationFilter(params)
      [] stage = "project" -> ProjectFilter(params)
      [] stage = "environment" -> EnvironmentFilter(params)
      [] stage = "deleted" -> SoftDeleteFilter(params)
      [] stage = "startTime" -> StartTimeFilter(params)
      [] stage = "endTime" -> EndTimeFilter(params)
      [] stage = "taskIdentifier" -> TaskIdentifierFilter(params)
      [] stage = "status" -> StatusFilter(params)
      [] stage = "queue" -> QueueFilter(params)
      [] stage = "groupBy" -> Grouping(params)
      [] stage = "orderBy" -> Ordering(params)

RECURSIVE ComposeFrom(_, _, _)
ComposeFrom(builder, params, i) ==
    IF i > Len(Stages) THEN builder
    ELSE ComposeFrom(
             [builder EXCEPT !.calls = @ \o CallsOf(Stages[i], params)],
             params, i + 1)

\* The whole of createMetricsQuery as one call: a thrown error, or the
\* builder it returns.
createMetricsQuery(params, metricType, customMetric) ==
    LET sel == SelectQueryBuilder(params, metricType, customMetric)
    IN  IF sel.threw
        THEN [threw |-> TRUE, message |-> sel.message, builder |-> None]
        ELSE [threw |-> FALSE, message |-> "",
              builder |-> Some(ComposeFrom(NewBuilder(sel.queryBuilder[1]),
                                           params, 1))]

----------------------------------------------------------------------------
\* Inputs of createMetricsQuery

BaseParams ==
    [organizationId |-> "org_123", projectId |-> "proj_456",
     environmentId |-> "env_789", startTime |-> NumV(1700), endTime |-> None,
     granularity |-> <<"1", "h">>, filters |-> None, groupBy |-> None,
     rollup |-> None]

Rollup(type, column) == Some([type |-> type, column |-> column])

Columns == {"*", "usage_duration_ms", "task_identifier", ""}

RollupChoices ==
    {None} \cup {Rollup(t, c) : t \in RollupTypes, c \in Columns}

\* The declared metric types, a string that is none of them, and "".
MetricTypeChoices ==
    {None} \cup {Some(m) : m \in {"count", "duration", "cost", "status",
                                  "custom", "percentile", ""}}

CustomMetricChoices ==
    {None} \cup {Some([aggregation |-> a, column |-> c]) :
                    a \in CustomAggregations,
                    c \in {"cost_in_cents", "usage_duration_ms"}}

OptStrings(S) == {None} \cup {Some(s) : s \in S}

FilterChoices ==
    {None} \cup
    {Some([task_identifier |-> t, status |-> s, queue |-> q]) :
        t \in OptStrings({"", "my-task"}),
        s \in OptStrings({"", "COMPLETED_SUCCESSFULLY"}),
        q \in OptStrings({"", "task/my-task"})}

EndTimeChoices == {None, Some(NumV(0)), Some(NumV(1800)), Some(StrV(""))}

StartTimeChoices == {NumV(1700), StrV("2024-01-01T00:00:00Z")}

GroupByChoices == OptStrings({"", "task_identifier", "status"})

Args(params, metricType, customMetric) ==
    [params |-> params, metricType |-> metricType,
     customMetric |-> customMetric]

\* Every granularity string, with a rollup or with each predefined metric.
GranularityInputs ==
    {Args([BaseParams EXCEPT !.granularity = g, !.rollup = r.rollup],
          r.metricType, r.customMetric) :
        g \in GranularityStrings,
        r \in {[rollup |-> Rollup("count", "*"), metricType |-> None,
                customMetric |-> None]}
              \cup {[rollup |-> None, metricType |-> Some(m),
                     customMetric |-> None] :
                       m \in {"count", "duration", "cost", "status"}}
              \cup {[rollup |-> None, metricType |-> Some("custom"),
                     customMetric |-> Some([aggregation |-> "avg",
                                            column |-> "usage_duration_ms"])]}}

\* Every rollup with every metric type and custom metric.
MetricInputs ==
    {Args([BaseParams EXCEPT !.granularity = <<"1", "5", "m">>, !.rollup = r],
          m, c) :
        r \in RollupChoices, m \in MetricTypeChoices,
        c \in CustomMetricChoices}

\* Every combination of the optional filters, end time and group-by.
FilterInputs ==
    {Args([BaseParams EXCEPT !.granularity = <<"1", "5", "m">>,
                             !.startTime = st, !.endTime = e, !.filters = f,
                             !.groupBy = g, !.rollup = r], m, None) :
        st \in StartTimeChoices, e \in EndTimeChoices, f \in FilterChoices,
        g \in GroupByChoices,
        r \in {None, Rollup("avg", "usage_duration_ms")},
        m \in {None, Some("count"), Some("status")}}

Inputs == GranularityInputs \cup MetricInputs \cup FilterInputs

----------------------------------------------------------------------------
\* State

\* The compositions that may run side by side.
Procs == {"A", "B"}

\* A call of createMetricsQuery that has not been made.
NoCall ==
    [pc |-> "off", params |-> BaseParams, metricType |-> None,
     customMetric |-> None, builder |-> None, error |-> ""]

\* A call of createMetricsQuery about to run its first statement.
Entered(args) ==
    [pc |-> "select", params |-> args.params, metricType |-> args.metricType,
     customMetric |-> args.customMetric, builder |-> None, error |-> ""]

----------------------------------------------------------------------------
\* createMetricsQuery, statement by statement

\* let queryBuilder; if (params.rollup) ... else throw; queryBuilder()
CreateBuilder(p) ==
    /\ call[p].pc = "select"
    /\ LET sel == SelectQueryBuilder(call[p].params, call[p].metricType,
                                     call[p].customMetric)
       IN  call' = [call EXCEPT ![p] =
                IF sel.threw
                THEN [@ EXCEPT !.pc = "threw", !.error = sel.message]
                ELSE [@ EXCEPT !.pc = Stages[1],
                               !.builder = Some(NewBuilder(sel.queryBuilder[1]))]]
    /\ UNCHANGED <<svc, ldr>>

\* A variant in which the compositions share their builder: the calls of a
\* statement land on every builder that exists, not only on the caller's.
Statement_onSharedBuilder(p, stage, calls) ==
    /\ call[p].pc = stage
    /\ call' = [q \in Procs |->
                 [call[q] EXCEPT
                    !.pc = IF q = p THEN After(stage) ELSE @,
                    !.builder = IF @ = <<>> THEN @
                                ELSE Some([@[1] EXCEPT !.calls = @ \o calls])]]
    /\ UNCHANGED <<svc, ldr>>

\* One statement of the body: the calls it makes are appended to the builder.
Statement(p, stage, calls) ==
    /\ call[p].pc = stage
    /\ call' = [call EXCEPT ![p].pc = After(stage),
                            ![p].builder = Some([@[1] EXCEPT !.calls = @ \o calls])]
    /\ UNCHANGED <<svc, ldr>>

WhereOrganization(p) ==
    Statement(p, "organization", OrganizationFilter(call[p].params))

WhereProject(p) == Statement(p, "project", ProjectFilter(call[p].params))

WhereEnvironment(p) ==
    Statement(p, "environment", EnvironmentFilter(call[p].params))

WhereNotDeleted(p) == Statement(p, "deleted", SoftDeleteFilter(call[p].params))

WhereStartTime(p) == Statement(p, "startTime", StartTimeFilter(call[p].params))

WhereEndTime(p) == Statement(p, "endTime", EndTimeFilter(call[p].params))

WhereTaskIdentifier(p) ==
    Statement(p, "taskIdentifier", TaskIdentifierFilter(call[p].params))

WhereStatus(p) == Statement(p, "status", StatusFilter(call[p].params))

WhereQueue(p) == Statement(p, "queue", QueueFilter(call[p].params))

AddGrouping(p) == Statement(p, "groupBy", Grouping(call[p].params))

AddOrdering(p) == Statement(p, "orderBy", Ordering(call[p].params))

Compose(p) ==
    \/ CreateBuilder(p)
    \/ WhereOrganization(p)
    \/ WhereProject(p)
    \/ WhereEnvironment(p)
    \/ WhereNotDeleted(p)
    \/ WhereStartTime(p)
    \/ WhereEndTime(p)
    \/ WhereTaskIdentifier(p)
    \/ WhereStatus(p)
    \/ WhereQueue(p)
    \/ AddGrouping(p)
    \/ AddOrdering(p)

----------------------------------------------------------------------------
\* MetricsService

ServiceMethods ==
    {"getTaskRunMetrics", "getTaskRunCount", "getTaskRunDuration",
     "getTaskRunCost", "getTaskRunStatus", "getDynamicMetrics"}

\* A variant that hands the ids over in the wrong order: the project id
\* where the environment id belongs and the other way round.
convertAPIParamsToClickHouseParams_swapped(apiParams, organizationId, projectId, environmentId) ==
    [organizationId |-> organizationId, projectId |-> environmentId,
     environmentId |-> projectId, startTime |-> apiParams.startTime,
     endTime |-> apiParams.endTime, granularity |-> apiParams.granularity,
     filters |-> apiParams.filters, groupBy |-> apiParams.groupBy,
     rollup |-> apiParams.rollup]

convertAPIParamsToClickHouseParams(apiParams, organizationId, projectId, environmentId) ==
    [organizationId |-> organizationId, projectId |-> projectId,
     environmentId |-> environmentId, startTime |-> apiParams.startTime,
     endTime |-> apiParams.endTime, granularity |-> apiParams.granularity,
     filters |-> apiParams.filters, groupBy |-> apiParams.groupBy,
     rollup |-> apiParams.rollup]

\* A variant of getTaskRunMetrics without the default of its metricType
\* parameter.
MetricTypeOf_noDefault(method, given) ==
    CASE method = "getTaskRunMetrics" -> given
      [] method = "getTaskRunCount" -> Some("count")
      [] method = "getTaskRunDuration" -> Some("duration")
      [] method = "getTaskRunCost" -> Some("cost")
      [] method = "getTaskRunStatus" -> Some("status")
      [] method = "getDynamicMetrics" -> None

\* The metricType a method passes to createQuery; `given` is the argument of
\* getTaskRunMetrics, whose default is "count".
MetricTypeOf(method, given) ==
    CASE method = "getTaskRunMetrics" ->
           IF IsGiven(given) THEN given ELSE Some("count")
      [] method = "getTaskRunCount" -> Some("count")
      [] method = "getTaskRunDuration" -> Some("duration")
      [] method = "getTaskRunCost" -> Some("cost")
      [] method = "getTaskRunStatus" -> Some("status")
      [] method = "getDynamicMetrics" -> None

\* clickhouse.metrics.createQuery(params, metricType)
createQuery(params, metricType) == createMetricsQuery(params, metricType, None)

\* What await query.execute() resolves to: [error, undefined] or
\* [null, result].
Failure(message) == [error |-> Some([message |-> message]), result |-> None]

Success(result) == [error |-> None, result |-> Some(result)]

ExecuteOutcomes ==
    {Failure(m) : m \in {"Timeout exceeded", "Unknown table"}}
    \cup {Success(r) : r \in {<<>>, <<[timestamp |-> "2024-01-01 00:00:00",
                                       value |-> 3]>>}}

FailurePrefix(method) ==
    IF method = "getDynamicMetrics" THEN "Failed to fetch dynamic metrics: "
    ELSE "Failed to fetch metrics: "

\* A variant that returns the result element without looking at the error.
BranchOnTuple_ignoresError(method, tuple) ==
    [pc |-> "returned", result |-> tuple.result, error |-> ""]

\* if (error) throw new Error(`...${error.message}`); return result;
BranchOnTuple(method, tuple) ==
    IF IsGiven(tuple.error)
    THEN [pc |-> "threw", result |-> None,
          error |-> FailurePrefix(method) \o tuple.error[1].message]
    ELSE [pc |-> "returned", result |-> tuple.result, error |-> ""]

NoApiParams ==
    [startTime |-> NumV(1700), endTime |-> None, granularity |-> <<"1", "h">>,
     filters |-> None, groupBy |-> None, rollup |-> None]

NoService ==
    [pc |-> "off", method |-> "getTaskRunMetrics", apiParams |-> NoApiParams,
     organizationId |-> "", projectId |-> "", environmentId |-> "",
     metricType |-> None, createQueryCalls |-> <<>>, query |-> None,
     executions |-> 0, executed |-> None, result |-> None, error |-> ""]

ServiceCalled(method, metricType, apiParams, tenant) ==
    [NoService EXCEPT !.pc = "called", !.method = method,
                      !.metricType = metricType, !.apiParams = apiParams,
                      !.organizationId = tenant.organizationId,
                      !.projectId = tenant.projectId,
                      !.environmentId = tenant.environmentId]

\* A variant of getDynamicMetrics without its rollup check.
RollupMissing_neverChecked(method, apiParams) == FALSE

\* if (!params.rollup) at the head of getDynamicMetrics; the other methods
\* have no such check.
RollupMissing(method, apiParams) ==
    method = "getDynamicMetrics" /\ ~IsGiven(apiParams.rollup)

\* The method body up to its await: the rollup check of getDynamicMetrics,
\* the conversion of the parameters, and createQuery.
ServiceCreateQuery ==
    /\ svc.pc = "called"
    /\ IF RollupMissing(svc.method, svc.apiParams)
       THEN svc' = [svc EXCEPT !.pc = "threw",
                       !.error = "rollup parameter is required for dynamic metrics"]
       ELSE LET clickhouseParams ==
                    convertAPIParamsToClickHouseParams(svc.apiParams,
                        svc.organizationId, svc.projectId, svc.environmentId)
                metricType == MetricTypeOf(svc.method, svc.metricType)
                made == createQuery(clickhouseParams, metricType)
            IN  svc' = [svc EXCEPT
                    !.createQueryCalls =
                        Append(@, Args(clickhouseParams, metricType, None)),
                    !.pc = IF made.threw THEN "threw" ELSE "awaiting",
                    !.error = made.message,
                    !.query = made.builder]
    /\ UNCHANGED <<call, ldr>>

\* await query.execute()
ServiceExecute ==
    /\ svc.pc = "awaiting"
    /\ \E tuple \in ExecuteOutcomes :
          svc' = [svc EXCEPT !.pc = "resumed", !.executed = Some(tuple),
                             !.executions = @ + 1]
    /\ UNCHANGED <<call, ldr>>

\* The method body after its await.
ServiceBranch ==
    /\ svc.pc = "resumed"
    /\ LET out == BranchOnTuple(svc.method, svc.executed[1])
       IN  svc' = [svc EXCEPT !.pc = out.pc, !.result = out.result,
                              !.error = out.error]
    /\ UNCHANGED <<call, ldr>>

----------------------------------------------------------------------------
\* The metrics route loader

\* The environments of the replica database and the members of their
\* organizations.
RuntimeEnvironments ==
    {[id |-> "env_789", organizationId |-> "org_123", projectId |-> "proj_456"],
     [id |-> "env_555", organizationId |-> "org_999", projectId |-> "proj_111"]}

OrgMembers(organizationId) ==
    CASE organizationId = "org_123" -> {"user_1"}
      [] organizationId = "org_999" -> {"user_2"}
      [] OTHER -> {}

\* A variant of the lookup by id alone, without the membership condition.
findUnique_ignoresMembership(environmentId, userId) ==
    LET found == {e \in RuntimeEnvironments : e.id = environmentId}
    IN  IF found = {} THEN None
        ELSE LET e == CHOOSE e \in found : TRUE
             IN  Some([organizationId |-> e.organizationId,
                       projectId |-> e.projectId])

\* $replica.runtimeEnvironment.findUnique({where: {id, organization:
\* {members: {some: {userId}}}}, select: {organizationId, projectId}})
findUnique(environmentId, userId) ==
    LET found == {e \in RuntimeEnvironments :
                     e.id = environmentId /\ userId \in OrgMembers(e.organizationId)}
    IN  IF found = {} THEN None
        ELSE LET e == CHOOSE e \in found : TRUE
             IN  Some([organizationId |-> e.organizationId,
                       projectId |-> e.projectId])

\* MetricsQuery: metrics, startTime and granularity are required.
SearchChoices ==
    {[metrics |-> m, startTime |-> st, granularity |-> g] :
        m \in OptStrings({"runs"}), st \in OptStrings({"1700"}),
        g \in OptStrings({"1h"})}

\* createSearchParams(request.url, MetricsQuery).success
SearchValid(search) ==
    IsGiven(search.metrics) /\ IsGiven(search.startTime) /\ IsGiven(search.granularity)

SearchError == "Invalid search params"

Requests ==
    {[session |-> u, environmentId |-> e, search |-> q] :
        u \in OptStrings({"user_1", "user_2"}),
        e \in OptStrings({"env_789", "env_000"}),
        q \in SearchChoices}

\* The status of new Response(body) without an init.
DefaultStatus == 200

Response(how, status, body) == [how |-> how, status |-> status, body |-> body]

EnvironmentNotFound ==
    "This environment does not exist or you do not have permission to access it"

\* A variant that leaves the status out of the response.
InvalidQueryResponse_noStatus(error) == Response("returned", DefaultStatus, error)

\* throw new Response(searchParams.error, { status: 400 }), returned by the
\* catch block
InvalidQueryResponse(error) == Response("returned", 400, error)

\* throw new Response(error.message, { status: 500 }), returned by the catch
\* block
PresenterErrorResponse(message) == Response("returned", 500, message)

\* What tryCatch(metricPresenter.call(...)) resolves to.
PresenterOutcomes ==
    {Success("{\"metrics\":[]}")}
    \cup {Failure(m) : m \in {"Query failed", "connect ECONNREFUSED"}}

NoRequest ==
    [session |-> None, environmentId |-> None,
     search |-> [metrics |-> None, startTime |-> None, granularity |-> None]]

NoLoader ==
    [pc |-> "off", request |-> NoRequest, userId |-> None, environment |-> None,
     steps |-> <<>>, validation |-> None, presenterCalls |-> <<>>,
     presented |-> None, response |-> None]

LoaderEntered(request) ==
    [NoLoader EXCEPT !.pc = "requireUserId", !.request = request]

\* const userId = await requireUserId(request)
RequireUserId ==
    /\ ldr.pc = "requireUserId"
    /\ ldr' = IF IsGiven(ldr.request.session)
              THEN [ldr EXCEPT !.pc = "parseParams", !.userId = ldr.request.session,
                               !.steps = Append(@, "requireUserId")]
              ELSE [ldr EXCEPT !.pc = "responded",
                               !.steps = Append(@, "requireUserId"),
                               !.response = Some(Response("thrown", 302, "/login"))]
    /\ UNCHANGED <<call, svc>>

\* const { environmentId } = ParamsSchema.parse(params)
ParseParams ==
    /\ ldr.pc = "parseParams"
    /\ ldr' = IF IsGiven(ldr.request.environmentId)
              THEN [ldr EXCEPT !.pc = "findUnique",
                               !.steps = Append(@, "parseParams")]
              ELSE [ldr EXCEPT !.pc = "responded",
                               !.steps = Append(@, "parseParams"),
                               !.response = Some(Response("thrownError", 500, "ZodError"))]
    /\ UNCHANGED <<call, svc>>

\* The environment lookup and the check of its result; a failing lookup
\* rejects with an Error.
FindEnvironment ==
    /\ ldr.pc = "findUnique"
    /\ \E ok \in BOOLEAN :
          LET environment == findUnique(ldr.request.environmentId[1], ldr.userId[1])
          IN  ldr' =
                IF ~ok
                THEN [ldr EXCEPT !.pc = "responded",
                                 !.steps = Append(@, "findUnique"),
                                 !.response = Some(Response("thrown", 500,
                                                            "Can't reach database server"))]
                ELSE IF ~IsGiven(environment)
                THEN [ldr EXCEPT !.pc = "responded",
                                 !.steps = Append(@, "findUnique"),
                                 !.response = Some(Response("returned", DefaultStatus,
                                                            EnvironmentNotFound))]
                ELSE [ldr EXCEPT !.pc = "createSearchParams",
                                 !.steps = Append(@, "findUnique"),
                                 !.environment = environment]
    /\ UNCHANGED <<call, svc>>

\* const searchParams = createSearchParams(request.url, MetricsQuery)
ValidateQuery ==
    /\ ldr.pc = "createSearchParams"
    /\ ldr' = IF SearchValid(ldr.request.search)
              THEN [ldr EXCEPT !.pc = "presenter", !.validation = Some(TRUE),
                               !.steps = Append(@, "createSearchParams")]
              ELSE [ldr EXCEPT !.pc = "responded", !.validation = Some(FALSE),
                               !.steps = Append(@, "createSearchParams"),
                               !.response = Some(InvalidQueryResponse(SearchError))]
    /\ UNCHANGED <<call, svc>>

\* await tryCatch(metricPresenter.call({...})), then the branch on its error
CallPresenter ==
    /\ ldr.pc = "presenter"
    /\ \E tuple \in PresenterOutcomes :
          ldr' = [ldr EXCEPT
              !.pc = "responded",
              !.steps = Append(@, "presenter"),
              !.presenterCalls =
                  Append(@, [organizationId |-> ldr.environment[1].organizationId,
                             projectId |-> ldr.environment[1].projectId,
                             environmentId |-> ldr.request.environmentId[1],
                             query |-> ldr.request.search]),
              !.presented = Some(tuple),
              !.response =
                  IF IsGiven(tuple.error)
                  THEN Some(PresenterErrorResponse(tuple.error[1].message))
                  ELSE Some(Response("returned", 200, tuple.result[1]))]
    /\ UNCHANGED <<call, svc>>

----------------------------------------------------------------------------
\* One composition: createMetricsQuery called once on each input

Init ==
    /\ \E args \in Inputs :
          call = [p \in Procs |-> IF p = "A" THEN Entered(args) ELSE NoCall]
    /\ svc = NoService
    /\ ldr = NoLoader

Next == \E p \in Procs : Compose(p)

Spec == Init /\ [][Next]_vars

----------------------------------------------------------------------------
\* Two compositions side by side, statement by statement

Tenants ==
    {[organizationId |-> "org_123", projectId |-> "proj_456",
      environmentId |-> "env_789"],
     [organizationId |-> "org_999", projectId |-> "proj_111",
      environmentId |-> "env_555"]}

PairInputs ==
    {Args([BaseParams EXCEPT !.organizationId = t.organizationId,
                             !.projectId = t.projectId,
                             !.environmentId = t.environmentId,
                             !.granularity = <<"1", "5", "m">>,
                             !.endTime = f.endTime, !.filters = f.filters,
                             !.groupBy = g, !.rollup = r.rollup],
          r.metricType, None) :
        t \in Tenants,
        f \in {[endTime |-> None, filters |-> None],
               [endTime |-> Some(NumV(1800)),
                filters |-> Some([task_identifier |-> None,
                                  status |-> Some("COMPLETED_SUCCESSFULLY"),
                                  queue |-> None])]},
        g \in {None, Some("status")},
        r \in {[rollup |-> None, metricType |-> Some("count")],
               [rollup |-> Rollup("avg", "usage_duration_ms"),
                metricType |-> None]}}
    \cup {Args(BaseParams, None, None)}

InitPair ==
    /\ \E a \in PairInputs : \E b \in PairInputs :
          call = [p \in Procs |-> IF p = "A" THEN Entered(a) ELSE Entered(b)]
    /\ svc = NoService
    /\ ldr = NoLoader

SpecPair == InitPair /\ [][Next]_vars

----------------------------------------------------------------------------
\* One call of a MetricsService method

ApiInputs ==
    {[NoApiParams EXCEPT !.granularity = g, !.endTime = e, !.filters = f,
                         !.groupBy = gb, !.rollup = r] :
        g \in {<<"1", "5", "m">>, <<"1", "w">>},
        e \in {None, Some(NumV(1800))},
        f \in {None, Some([task_identifier |-> Some("my-task"), status |-> None,
                           queue |-> None])},
        gb \in {None, Some("status")},
        r \in {None, Rollup("count", "*"), Rollup("avg", "usage_duration_ms")}}

\* The metricType arguments a caller of the method can pass.
MetricTypeArguments(method) ==
    IF method = "getTaskRunMetrics"
    THEN {None, Some("count"), Some("duration"), Some("cost"), Some("status")}
    ELSE {None}

InitService ==
    /\ call = [p \in Procs |-> NoCall]
    /\ \E method \in ServiceMethods : \E apiParams \in ApiInputs :
       \E tenant \in Tenants : \E metricType \in MetricTypeArguments(method) :
          svc = ServiceCalled(method, metricType, apiParams, tenant)
    /\ ldr = NoLoader

NextService == ServiceCreateQuery \/ ServiceExecute \/ ServiceBranch

SpecService == InitService /\ [][NextService]_vars

----------------------------------------------------------------------------
\* createMetricsQuery called directly, or through a MetricsService method

InitQueryOrService == Init \/ InitService

NextQueryOrService == Next \/ NextService

SpecQueryOrService == InitQueryOrService /\ [][NextQueryOrService]_vars

----------------------------------------------------------------------------
\* One request to the metrics route

InitLoader ==
    /\ call = [p \in Procs |-> NoCall]
    /\ svc = NoService
    /\ \E request \in Requests : ldr = LoaderEntered(request)

NextLoader ==
    \/ RequireUserId
    \/ ParseParams
    \/ FindEnvironment
    \/ ValidateQuery
    \/ CallPresenter

SpecLoader == InitLoader /\ [][NextLoader]_vars

----------------------------------------------------------------------------
\* Observations on a composition

HasBuilder(p) == IsGiven(call[p].builder)

Returned(p) == call[p].pc = "done"

Threw(p) == call[p].pc = "threw"

\* Control is past the choice of the query builder.
PastSelection(p) == call[p].pc \notin {"off", "select"}

CallsMade(p) == IF HasBuilder(p) THEN call[p].builder[1].calls ELSE <<>>

IsGroupBy(c) == c.op = "groupBy"

\* The columns of the groupBy calls made so far, in order.
GroupByColumns(p) ==
    LET g == SelectSeq(CallsMade(p), IsGroupBy)
    IN  [i \in 1..Len(g) |-> g[i].clause]

\* The place a call has in the documented order; 0 for any other call.
Rank(c) ==
    CASE c.op = "where" /\ c.clause = "organization_id = {organizationId:String}" -> 1
      [] c.op = "where" /\ c.clause = "project_id = {projectId:String}" -> 2
      [] c.op = "where" /\ c.clause = "environment_id = {environmentId:String}" -> 3
      [] c.op = "where" /\ c.clause = "_is_deleted = 0" -> 4
      [] c.op = "where"
           /\ c.clause = "created_at >= toUnixTimestamp({startTime:DateTime64})" -> 5
      [] c.op = "where"
           /\ c.clause = "created_at <= toUnixTimestamp({endTime:DateTime64})" -> 6
      [] c.op = "where" /\ c.clause = "task_identifier = {taskIdentifier:String}" -> 7
      [] c.op = "where" /\ c.clause = "status = {status:String}" -> 8
      [] c.op = "where" /\ c.clause = "queue = {queue:String}" -> 9
      [] c.op = "groupBy" -> 10
      [] c.op = "orderBy" /\ c.clause = "timestamp ASC" -> 11
      [] OTHER -> 0

----------------------------------------------------------------------------
\* C1: for every granularity string that does not match ^(\d+)([smhd])$,
\* composing a dynamic query (a rollup is given) from it throws and produces
\* no query builder.
C1_InvalidGranularityThrows ==
    \A p \in Procs :
        (/\ PastSelection(p)
         /\ IsGiven(call[p].params.rollup)
         /\ ~Matches(call[p].params.granularity))
        => (Threw(p) /\ ~HasBuilder(p))

C3_ExplicitGroupByApplied ==
    \A p \in Procs :
        (Returned(p) /\ TruthyStr(call[p].params.groupBy))
        => GroupByColumns(p) = <<call[p].params.groupBy[1]>>

\* C4: the calls on the builder are made in one fixed order: the
\* organization, project, environment, soft-delete and start-time filters,
\* then the end-time, task_identifier, status and queue filters, then the
\* group-by, then one order-by "timestamp ASC"; no where follows a group-by
\* or order-by, and the order-by is the final call of a returned query.
C4_ClauseOrder ==
    \A p \in Procs :
        LET calls == CallsMade(p)
        IN  /\ \A i \in 1..Len(calls) : Rank(calls[i]) >= 1
            /\ \A i \in 1..Len(calls) : \A j \in 1..Len(calls) :
                  i < j => Rank(calls[i]) < Rank(calls[j])
            /\ \A i \in 1..Len(calls) : i <= 5 => Rank(calls[i]) = i
            /\ Returned(p) =>
                  /\ Len(calls) >= 6
                  /\ calls[Len(calls)] =
                       [op |-> "orderBy", clause |-> "timestamp ASC",
                        params |-> <<>>]

\* A query was returned with every optional clause on it.
C4_Witness ==
    /\ Returned("A")
    /\ Len(CallsMade("A")) = 11
    /\ Rank(CallsMade("A")[9]) = 9
    /\ Rank(CallsMade("A")[10]) = 10

C6_AggregationTable ==
    \A p \in Procs :
        (HasBuilder(p) /\ IsGiven(call[p].params.rollup))
        => LET type == call[p].params.rollup[1].type
               c == call[p].params.rollup[1].column
           IN  call[p].builder[1].baseQuery.value =
                 IF type = "count" /\ c = "*" THEN "count()"
                 ELSE IF type = "distinct" THEN "uniq(" \o c \o ")"
                 ELSE type \o "(" \o c \o ")"

\* A dynamic query summing over the wildcard column was built as sum(*).
C6_Witness ==
    /\ HasBuilder("A")
    /\ call["A"].params.rollup = <<[type |-> "sum", column |-> "*"]>>
    /\ call["A"].builder[1].baseQuery.value = "sum(*)"

\* C7: createMetricsQuery throws, with no builder created and no call made,
\* when there is no rollup and (a) no metricType, or (b) metricType "custom"
\* without a customMetric, or (c) a metricType that is none of the known
\* types.
C7_ConstructionErrors ==
    \A p \in Procs :
        (/\ PastSelection(p)
         /\ ~IsGiven(call[p].params.rollup)
         /\ \/ ~IsGiven(call[p].metricType)
            \/ (call[p].metricType = <<"custom">> /\ ~IsGiven(call[p].customMetric))
            \/ (/\ IsGiven(call[p].metricType)
                /\ call[p].metricType[1] \notin
                     {"count", "duration", "cost", "status", "custom"}))
        => (/\ Threw(p)
            /\ call[p].error # ""
            /\ ~HasBuilder(p)
            /\ CallsMade(p) = <<>>)

\* An unknown metric type without a rollup was rejected.
C7_Witness ==
    /\ Threw("A")
    /\ call["A"].metricType = <<"percentile">>
    /\ ~IsGiven(call["A"].params.rollup)
    /\ call["A"].error = "Unknown metric type: percentile"

----------------------------------------------------------------------------
\* Observations on a service call and on a request

\* execute() has delivered its tuple.
Executed == IsGiven(svc.executed)

ExecutionFailed == Executed /\ IsGiven(svc.executed[1].error)

Responded == IsGiven(ldr.response)

\* C8: a failed execution is delivered by execute() as the first element of
\* its tuple and not thrown; getTaskRunMetrics and getDynamicMetrics return
\* the result exactly when that element is null, and otherwise throw an
\* Error that carries the failure's message and return nothing.
C8_ErrorTupleBranch ==
    /\ svc.pc = "resumed" => (Executed /\ svc.error = "" /\ svc.result = None)
    /\ svc.pc = "returned" =>
          (/\ Executed
           /\ ~ExecutionFailed
           /\ svc.result = svc.executed[1].result)
    /\ (Executed /\ svc.pc # "resumed") =>
          IF ExecutionFailed
          THEN /\ svc.pc = "threw"
               /\ svc.result = None
               /\ svc.error =
                    (IF svc.method = "getDynamicMetrics"
                     THEN "Failed to fetch dynamic metrics: "
                     ELSE "Failed to fetch metrics: ")
                    \o svc.executed[1].error[1].message
          ELSE svc.pc = "returned"

\* getDynamicMetrics threw the message of a failed execution.
C8_Witness ==
    /\ svc.pc = "threw"
    /\ svc.method = "getDynamicMetrics"
    /\ ExecutionFailed
    /\ svc.error = "Failed to fetch dynamic metrics: Timeout exceeded"

\* C9: query parameters that fail the MetricsQuery validation get an HTTP
\* 400 response, and an error of the presenter call gets an HTTP 500
\* response whose body is the error's message; neither gets a success
\* response.
C9_LoaderErrorResponses ==
    /\ ldr.validation = <<FALSE>> =>
          (/\ Responded
           /\ ldr.response[1].how = "returned"
           /\ ldr.response[1].status = 400)
    /\ (IsGiven(ldr.presented) /\ IsGiven(ldr.presented[1].error)) =>
          (/\ Responded
           /\ ldr.response[1].how = "returned"
           /\ ldr.response[1].status = 500
           /\ ldr.response[1].body = ldr.presented[1].error[1].message)

\* A request of a member for an existing environment, without the required
\* granularity, was answered with 400.
C9_Witness ==
    /\ ldr.pc = "responded"
    /\ IsGiven(ldr.environment)
    /\ ~IsGiven(ldr.request.search.granularity)
    /\ ldr.validation = <<FALSE>>
    /\ ldr.response[1].status = 400

\* The presenter's error was answered with 500 and its message.
C9_WitnessPresenterError ==
    /\ ldr.pc = "responded"
    /\ IsGiven(ldr.presented)
    /\ IsGiven(ldr.presented[1].error)
    /\ ldr.response[1] = [how |-> "returned", status |-> 500,
                          body |-> "Query failed"]

SameArguments(p, q) ==
    /\ call[p].params = call[q].params
    /\ call[p].metricType = call[q].metricType
    /\ call[p].customMetric = call[q].customMetric

Finished(p) == Returned(p) \/ Threw(p)

----------------------------------------------------------------------------
\* C11: a rollup whose column is the empty string is rejected at
\* construction, so that no composed query aggregates over an empty column
\* name.
C11_EmptyColumnRejected ==
    \A p \in Procs :
        (/\ PastSelection(p)
         /\ IsGiven(call[p].params.rollup)
         /\ call[p].params.rollup[1].column = "")
        => (Threw(p) /\ ~HasBuilder(p))

\* C12: the time bucket of a dynamic query is as wide as the requested
\* granularity: an amount other than one unit is not bucketed by the
\* one-minute, one-hour or one-day truncation, and no amount of seconds
\* drawn here (none is 60) is bucketed by the minute.
C12_BucketWidthFollowsAmount ==
    \A p \in Procs :
        (/\ HasBuilder(p)
         /\ IsGiven(call[p].params.rollup)
         /\ Matches(call[p].params.granularity))
        => LET g == call[p].params.granularity
               amount == SubSeq(g, 1, Len(g) - 1)
               unit == g[Len(g)]
               bucket == call[p].builder[1].baseQuery.timestamp
           IN  /\ unit = "s" => bucket # "toStartOfMinute(toDateTime(created_at))"
               /\ (unit = "m" /\ amount # <<"1">>)
                    => bucket # "toStartOfMinute(toDateTime(created_at))"
               /\ (unit = "h" /\ amount # <<"1">>)
                    => bucket # "toStartOfHour(toDateTime(created_at))"
               /\ (unit = "d" /\ amount # <<"1">>)
                    => bucket # "toDate(toDateTime(created_at))"

----------------------------------------------------------------------------
\* The values a composition may bind: those of its own params.
OwnValues(p) ==
    LET params == call[p].params
        filters == IF IsGiven(params.filters) THEN params.filters[1]
                   ELSE [task_identifier |-> None, status |-> None,
                         queue |-> None]
    IN  {StrV(params.organizationId), StrV(params.projectId),
         StrV(params.environmentId), params.startTime}
        \cup {params.endTime[i] : i \in DOMAIN params.endTime}
        \cup {StrV(f[1]) : f \in {filters.task_identifier, filters.status,
                                  filters.queue} \ {None}}

----------------------------------------------------------------------------
\* The where-calls on p's builder whose clause is `clause`.
WheresWith(p, clause) ==
    {c \in {CallsMade(p)[i] : i \in DOMAIN CallsMade(p)} :
        c.op = "where" /\ c.clause = clause}

\* The clause is on p's builder exactly when `given` holds a value, and then
\* once, binding that value under `name`.
AppendedIffGiven(p, clause, name, given) ==
    WheresWith(p, clause) =
        {[op |-> "where", clause |-> clause,
          params |-> <<[name |-> name, value |-> given[i]]>>] :
            i \in DOMAIN given}

\* C14: in a returned query each optional clause is present exactly when its
\* parameter is provided, whatever the value (0 and "" included): the
\* end-time filter iff params.endTime is given, the task_identifier, status
\* and queue filters iff the filter value is given, each an equality (or
\* upper-bound) clause binding exactly the given value.
C14_OptionalClauseIffGiven ==
    \A p \in Procs :
        Returned(p) =>
            LET params == call[p].params
                filter(field) ==
                    IF params.filters = <<>> \/ params.filters[1][field] = <<>>
                    THEN <<>>
                    ELSE <<[kind |-> "string", num |-> 0,
                            str |-> params.filters[1][field][1]]>>
            IN  /\ AppendedIffGiven(p,
                     "created_at <= toUnixTimestamp({endTime:DateTime64})",
                     "endTime", params.endTime)
                /\ AppendedIffGiven(p,
                     "task_identifier = {taskIdentifier:String}",
                     "taskIdentifier", filter("task_identifier"))
                /\ AppendedIffGiven(p, "status = {status:String}",
                     "status", filter("status"))
                /\ AppendedIffGiven(p, "queue = {queue:String}",
                     "queue", filter("queue"))

----------------------------------------------------------------------------
\* The bound parameters of the where-calls in `calls` whose clause is
\* `clause`.
BoundBy(calls, clause) ==
    {calls[i].params :
        i \in {j \in DOMAIN calls :
                  calls[j].op = "where" /\ calls[j].clause = clause}}

\* One bound string parameter.
BoundString(name, s) ==
    <<[name |-> name, value |-> [kind |-> "string", num |-> 0, str |-> s]]>>

\* `calls` filter on exactly this organization, project and environment and
\* on rows that are not deleted.
HasTenantFilters(calls, organizationId, projectId, environmentId) ==
    /\ BoundBy(calls, "organization_id = {organizationId:String}")
         = {BoundString("organizationId", organizationId)}
    /\ BoundBy(calls, "project_id = {projectId:String}")
         = {BoundString("projectId", projectId)}
    /\ BoundBy(calls, "environment_id = {environmentId:String}")
         = {BoundString("environmentId", environmentId)}
    /\ BoundBy(calls, "_is_deleted = 0") = {<<>>}

\* C15: every query createMetricsQuery returns, for any params, metric type
\* or rollup, carries the organization, project and environment equality
\* filters bound to the ids of its params, and the soft-delete filter; a
\* MetricsService method passes createQuery exactly the ids it was called
\* with, and the query it gets back is bound to them.
C15_TenantFiltersAlwaysBound ==
    /\ \A p \in Procs :
          Returned(p) =>
              HasTenantFilters(CallsMade(p), call[p].params.organizationId,
                               call[p].params.projectId,
                               call[p].params.environmentId)
    /\ \A i \in DOMAIN svc.createQueryCalls :
          /\ svc.createQueryCalls[i].params.organizationId = svc.organizationId
          /\ svc.createQueryCalls[i].params.projectId = svc.projectId
          /\ svc.createQueryCalls[i].params.environmentId = svc.environmentId
    /\ IsGiven(svc.query) =>
          HasTenantFilters(svc.query[1].calls, svc.organizationId,
                           svc.projectId, svc.environmentId)

\* A service method called for the second tenant returned, and the query it
\* executed filters on that tenant's ids.
C15_Witness ==
    /\ svc.pc = "returned"
    /\ svc.organizationId = "org_999"
    /\ svc.projectId = "proj_111"
    /\ svc.environmentId = "env_555"
    /\ svc.executions = 1
    /\ svc.query[1].calls[1].params[1].value.str = "org_999"
    /\ svc.query[1].calls[2].params[1].value.str = "proj_111"
    /\ svc.query[1].calls[3].params[1].value.str = "env_555"
    /\ svc.query[1].calls[4].clause = "_is_deleted = 0"

----------------------------------------------------------------------------
\* The query builder of the dynamic query for these params' granularity and
\* rollup.
DynamicQueryOf(params) ==
    getDynamicMetricsQueryBuilder(params.granularity, params.rollup[1].type,
                                  params.rollup[1].column)

\* `builder` was created from the dynamic query of `params`.
IsDynamicQueryOf(builder, params) ==
    /\ builder.name = DynamicQueryOf(params).name
    /\ builder.baseQuery = DynamicQueryOf(params).baseQuery

\* C16: when params.rollup is present createMetricsQuery never throws and
\* composes the dynamic query of params.granularity and the rollup, the same
\* as with neither metricType nor customMetric given; so every MetricsService
\* method called with API params that carry a rollup composes that dynamic
\* query and not its named predefined metric.
C16_RollupOverridesMetricType ==
    /\ \A p \in Procs :
          (PastSelection(p) /\ IsGiven(call[p].params.rollup)) =>
              /\ ~Threw(p)
              /\ HasBuilder(p)
              /\ IsDynamicQueryOf(call[p].builder[1], call[p].params)
              /\ Returned(p) =>
                    call[p].builder
                      = createMetricsQuery(call[p].params, None, None).builder
    /\ (svc.pc \notin {"off", "called"} /\ IsGiven(svc.apiParams.rollup)) =>
          /\ IsGiven(svc.query)
          /\ IsDynamicQueryOf(svc.query[1], svc.apiParams)
          /\ svc.query
               = createMetricsQuery(
                    [organizationId |-> svc.organizationId,
                     projectId |-> svc.projectId,
                     environmentId |-> svc.environmentId,
                     startTime |-> svc.apiParams.startTime,
                     endTime |-> svc.apiParams.endTime,
                     granularity |-> svc.apiParams.granularity,
                     filters |-> svc.apiParams.filters,
                     groupBy |-> svc.apiParams.groupBy,
                     rollup |-> svc.apiParams.rollup], None, None).builder

\* getTaskRunCost called with a rollup of avg over usage_duration_ms returned
\* after executing the dynamic query, not the cost metric.
C16_Witness ==
    /\ svc.pc = "returned"
    /\ svc.method = "getTaskRunCost"
    /\ svc.apiParams.rollup = <<[type |-> "avg", column |-> "usage_duration_ms"]>>
    /\ svc.createQueryCalls[1].metricType = <<"cost">>
    /\ svc.query[1].name = "getDynamicMetrics_avg_usage_duration_ms_15m"
    /\ svc.query[1].baseQuery.value = "avg(usage_duration_ms)"
    /\ svc.query[1].baseQuery.label = <<>>

----------------------------------------------------------------------------
\* C17: getDynamicMetrics called with params that have no rollup throws
\* "rollup parameter is required for dynamic metrics" with createQuery and
\* execute never called; with a rollup it calls createQuery exactly once,
\* without a metricType, and executes the query exactly once.
C17_DynamicMetricsNeedsRollup ==
    svc.method = "getDynamicMetrics" =>
        IF svc.apiParams.rollup = <<>>
        THEN /\ svc.createQueryCalls = <<>>
             /\ svc.query = <<>>
             /\ svc.executions = 0
             /\ svc.pc \in {"called", "threw"}
             /\ svc.pc = "threw" =>
                   svc.error = "rollup parameter is required for dynamic metrics"
        ELSE /\ Len(svc.createQueryCalls) <= 1
             /\ svc.executions <= 1
             /\ svc.pc # "called" =>
                   /\ Len(svc.createQueryCalls) = 1
                   /\ svc.createQueryCalls[1].metricType = <<>>
                   /\ svc.createQueryCalls[1].params.rollup = svc.apiParams.rollup
                   /\ svc.query # <<>>
             /\ svc.pc \in {"returned", "threw"} => svc.executions = 1

\* getDynamicMetrics threw for want of a rollup, having composed and
\* executed nothing.
C17_Witness ==
    /\ svc.method = "getDynamicMetrics"
    /\ svc.apiParams.rollup = <<>>
    /\ svc.pc = "threw"
    /\ svc.error = "rollup parameter is required for dynamic metrics"
    /\ svc.createQueryCalls = <<>>
    /\ svc.executions = 0

\* getDynamicMetrics with a rollup returned after one createQuery call
\* without a metricType and one execution.
C17_WitnessWithRollup ==
    /\ svc.method = "getDynamicMetrics"
    /\ svc.apiParams.rollup # <<>>
    /\ svc.pc = "returned"
    /\ Len(svc.createQueryCalls) = 1
    /\ svc.createQueryCalls[1].metricType = <<>>
    /\ svc.executions = 1

----------------------------------------------------------------------------
\* The steps of the loader in the order of its source.
LoaderOrder ==
    <<"requireUserId", "parseParams", "findUnique", "createSearchParams",
      "presenter">>

\* C18: the loader's steps run in one fixed order on every request: user
\* authentication, environmentId parsing, the membership-scoped environment
\* lookup, query validation, the presenter call. The presenter is called at
\* most once, and only for an authenticated user who is a member of the
\* organization of the requested environment and whose query is valid; it is
\* called with the organization and project ids of that environment.
C18_LoaderStepOrder ==
    /\ Len(ldr.steps) <= Len(LoaderOrder)
    /\ ldr.steps = SubSeq(LoaderOrder, 1, Len(ldr.steps))
    /\ Len(ldr.presenterCalls) <= 1
    /\ ldr.presenterCalls # <<>> =>
          /\ ldr.steps = LoaderOrder
          /\ ldr.request.session # <<>>
          /\ ldr.request.environmentId # <<>>
          /\ ldr.validation = <<TRUE>>
          /\ \A field \in {"metrics", "startTime", "granularity"} :
                ldr.request.search[field] # <<>>
          /\ \E e \in RuntimeEnvironments :
                /\ e.id = ldr.request.environmentId[1]
                /\ ldr.request.session[1] \in OrgMembers(e.organizationId)
                /\ ldr.presenterCalls[1].organizationId = e.organizationId
                /\ ldr.presenterCalls[1].projectId = e.projectId
                /\ ldr.presenterCalls[1].environmentId = e.id

\* A member's valid request went through all five steps and the presenter
\* was called with the ids of the environment found.
C18_Witness ==
    /\ ldr.pc = "responded"
    /\ ldr.steps = LoaderOrder
    /\ ldr.request.session = <<"user_1">>
    /\ ldr.presenterCalls[1].organizationId = "org_123"
    /\ ldr.presenterCalls[1].projectId = "proj_456"
    /\ ldr.presenterCalls[1].environmentId = "env_789"

\* C19: when the lookup finds no environment the user is a member of, the
\* loader's response has a non-success (4xx or 5xx) status.
C19_NotFoundIsNotSuccess ==
    (/\ Responded
     /\ Len(ldr.steps) >= 3
     /\ ~IsGiven(ldr.environment))
    => ldr.response[1].status \in 400..599

----------------------------------------------------------------------------
\* The set of columns p's query is grouped by.
GroupedBy(p) == {GroupByColumns(p)[i] : i \in DOMAIN GroupByColumns(p)}

\* C20: in every returned query the selected expressions that are not
\* aggregates are covered by the group-by: the time bucket (by its
\* expression or its alias timestamp) and, where the base query selects one,
\* the label column; and the label column selected is the one column the
\* query is grouped by besides the time bucket.
C20_SelectCoveredByGroupBy ==
    \A p \in Procs :
        Returned(p) =>
            LET baseQuery == call[p].builder[1].baseQuery
                bucket == {baseQuery.timestamp, "timestamp"}
            IN  /\ GroupedBy(p) \cap bucket # {}
                /\ baseQuery.label # <<>> => baseQuery.label[1] \in GroupedBy(p)
                /\ GroupedBy(p) \ bucket
                     = {baseQuery.label[i] : i \in DOMAIN baseQuery.label}

\* The same for the label column alone, leaving the time bucket aside.
C20_LabelIsGroupedColumn ==
    \A p \in Procs :
        Returned(p) =>
            LET baseQuery == call[p].builder[1].baseQuery
            IN  GroupedBy(p) = {baseQuery.label[i] : i \in DOMAIN baseQuery.label}

----------------------------------------------------------------------------
\* The metric types createMetricsQuery has a predefined query for.
PredefinedMetricTypes == {"count", "duration", "cost", "status", "custom"}

\* C21: called with a predefined metricType and no rollup, createMetricsQuery
\* buckets by the minute for every params.granularity, matching the
\* granularity pattern or not, and never fails on account of the
\* granularity: the one failure on this path is a custom metric without its
\* customMetric.
C21_PredefinedMetricsMinuteBucket ==
    \A p \in Procs :
        (/\ PastSelection(p)
         /\ call[p].params.rollup = <<>>
         /\ call[p].metricType # <<>>
         /\ call[p].metricType[1] \in PredefinedMetricTypes)
        => /\ Threw(p) <=> (call[p].metricType[1] = "custom"
                             /\ call[p].customMetric = <<>>)
           /\ Threw(p) =>
                 call[p].error = "customMetric is required for custom metric type"
           /\ ~Threw(p) =>
                 (/\ HasBuilder(p)
                  /\ call[p].builder[1].baseQuery.timestamp
                       = "toStartOfMinute(toDateTime(created_at))")

\* The duration metric asked for with a granularity of one hour returned a
\* query bucketed by the minute.
C21_Witness ==
    /\ Returned("A")
    /\ call["A"].metricType = <<"duration">>
    /\ call["A"].params.rollup = <<>>
    /\ call["A"].params.granularity = <<"1", "h">>
    /\ call["A"].builder[1].baseQuery.timestamp
         = "toStartOfMinute(toDateTime(created_at))"

\* The status metric asked for with a granularity that does not match the
\* pattern returned a query bucketed by the minute.
C21_WitnessNoMatch ==
    /\ Returned("A")
    /\ call["A"].metricType = <<"status">>
    /\ call["A"].params.granularity = <<"1", "w">>
    /\ call["A"].builder[1].baseQuery.timestamp
         = "toStartOfMinute(toDateTime(created_at))"

----------------------------------------------------------------------------
\* p's query was built by getCustomMetrics.
IsCustomQuery(p) ==
    /\ HasBuilder(p)
    /\ call[p].params.rollup = <<>>
    /\ call[p].metricType = <<"custom">>

\* C22: the base query of getCustomMetrics restricts to positive values of
\* the column (column > 0) exactly when the aggregation is sum, avg, min or
\* max and has no restriction when it is count; its aggregate expression is
\* aggregation(column) and its label is task_identifier.
C22_CustomMetricsPositiveFilter ==
    \A p \in Procs :
        IsCustomQuery(p) =>
            LET aggregation == call[p].customMetric[1].aggregation
                column == call[p].customMetric[1].column
                baseQuery == call[p].builder[1].baseQuery
            IN  /\ baseQuery.where # <<>>
                     <=> aggregation \in {"sum", "avg", "min", "max"}
                /\ baseQuery.where # <<>> =>
                      baseQuery.where[1] = column \o " > 0"
                /\ aggregation = "count" => baseQuery.where = <<>>
                /\ baseQuery.value = aggregation \o "(" \o column \o ")"
                /\ baseQuery.label = <<"task_identifier">>

\* A custom count over cost_in_cents was composed with no restriction.
C22_Witness ==
    /\ IsCustomQuery("A")
    /\ Returned("A")
    /\ call["A"].customMetric[1] = [aggregation |-> "count",
                                    column |-> "cost_in_cents"]
    /\ call["A"].builder[1].baseQuery.value = "count(cost_in_cents)"
    /\ call["A"].builder[1].baseQuery.where = <<>>

\* A custom sum over cost_in_cents was composed restricted to positive
\* values.
C22_WitnessSum ==
    /\ IsCustomQuery("A")
    /\ Returned("A")
    /\ call["A"].customMetric[1] = [aggregation |-> "sum",
                                    column |-> "cost_in_cents"]
    /\ call["A"].builder[1].baseQuery.value = "sum(cost_in_cents)"
    /\ call["A"].builder[1].baseQuery.where = <<"cost_in_cents > 0">>

----------------------------------------------------------------------------
\* The metric type each named method stands for, and the name of its
\* predefined query.
NamedMetric(method) ==
    CASE method = "getTaskRunCount" ->
           [metricType |-> "count", query |-> "getTaskRunCountMetrics"]
      [] method = "getTaskRunDuration" ->
           [metricType |-> "duration", query |-> "getTaskRunDurationMetrics"]
      [] method = "getTaskRunCost" ->
           [metricType |-> "cost", query |-> "getTaskRunCostMetrics"]
      [] method = "getTaskRunStatus" ->
           [metricType |-> "status", query |-> "getTaskRunStatusMetrics"]

\* C23: getTaskRunMetrics called without a metric type asks createQuery for
\* "count"; getTaskRunCount, getTaskRunDuration, getTaskRunCost and
\* getTaskRunStatus each call createQuery exactly once with the metric type
\* count, duration, cost and status, with startTime, endTime, granularity,
\* filters and groupBy as in the API params; when these carry no rollup the
\* query composed is the predefined one of that type and it is executed
\* exactly once.
C23_NamedMethodsPassThrough ==
    /\ Len(svc.createQueryCalls) <= 1
    /\ svc.executions <= 1
    /\ \A i \in DOMAIN svc.createQueryCalls :
          LET made == svc.createQueryCalls[i]
          IN  /\ made.params.startTime = svc.apiParams.startTime
              /\ made.params.endTime = svc.apiParams.endTime
              /\ made.params.granularity = svc.apiParams.granularity
              /\ made.params.filters = svc.apiParams.filters
              /\ made.params.groupBy = svc.apiParams.groupBy
    /\ (/\ svc.method = "getTaskRunMetrics"
        /\ svc.metricType = <<>>
        /\ svc.pc \notin {"off", "called"}) =>
          /\ Len(svc.createQueryCalls) = 1
          /\ svc.createQueryCalls[1].metricType = <<"count">>
          /\ svc.apiParams.rollup = <<>> =>
                svc.query[1].name = "getTaskRunCountMetrics"
    /\ (/\ svc.method \in {"getTaskRunCount", "getTaskRunDuration",
                           "getTaskRunCost", "getTaskRunStatus"}
        /\ svc.pc \notin {"off", "called"}) =>
          /\ Len(svc.createQueryCalls) = 1
          /\ svc.createQueryCalls[1].metricType
               = <<NamedMetric(svc.method).metricType>>
          /\ svc.apiParams.rollup = <<>> =>
                /\ svc.query # <<>>
                /\ svc.query[1].name = NamedMetric(svc.method).query
                /\ svc.pc \in {"returned", "threw"} => svc.executions = 1

\* getTaskRunDuration, called without a rollup and with an end time, a
\* filter and a groupBy, returned after composing and executing the
\* duration query once.
C23_Witness ==
    /\ svc.pc = "returned"
    /\ svc.method = "getTaskRunDuration"
    /\ svc.apiParams.rollup = <<>>
    /\ svc.apiParams.endTime # <<>>
    /\ svc.apiParams.filters # <<>>
    /\ svc.apiParams.groupBy = <<"status">>
    /\ svc.createQueryCalls[1].metricType = <<"duration">>
    /\ svc.createQueryCalls[1].params.groupBy = <<"status">>
    /\ svc.query[1].name = "getTaskRunDurationMetrics"
    /\ svc.executions = 1

\* getTaskRunMetrics, called without a metric type and without a rollup,
\* returned after executing the count query.
C23_WitnessDefault ==
    /\ svc.pc = "returned"
    /\ svc.method = "getTaskRunMetrics"
    /\ svc.metricType = <<>>
    /\ svc.apiParams.rollup = <<>>
    /\ svc.createQueryCalls[1].metricType = <<"count">>
    /\ svc.query[1].name = "getTaskRunCountMetrics"

====
